---- MODULE Spec2Model ----
(***************************************************************************)
(* Model of the chunk-aggregating blob store of hat-backup                 *)
(* (src/src/blob/mod.rs).  The store is an actor: one thread handles one   *)
(* message at a time.  `pc` is the position of that thread inside          *)
(* `handle`; "idle" is a request boundary.  The blob index and the storage *)
(* backend are not part of the sources at hand; they are modelled from     *)
(* their documented contracts.                                             *)
(***************************************************************************)
EXTENDS Integers, Sequences, FiniteSets, TLC

\* ------------------------------------------------------------------ bounds
MaxStores == 2
MaxBlobSize == 2
MaxChunkLen == 2
MaxByte == 2
NumThreads == 4
NumValues == 2
MaxNameLen == 2

\* ------------------------------------------------------------- value sets
Byte == 1..MaxByte

Kinds == {"TreeBranch", "TreeLeaf"}

\* The kinds non-empty chunks are stored with (the kind the tests store with).
LeafKinds == {"TreeLeaf"}

Tags == {"T1", "T2"}

NoTag == "NoTag"

Chunks == UNION {[1..n -> Byte] : n \in 0..MaxChunkLen}

\* Big-endian 64-bit encoding of a blob id: the externally visible name.
RECURSIVE BigEndian(_, _)
BigEndian(n, width) ==
    IF width = 0 THEN <<>>
    ELSE Append(BigEndian(n \div 256, width - 1), n % 256)

NameOf(i) == BigEndian(i, 8)

SentinelName == <<0>>

Sentinel(kind) == [blob_id |-> SentinelName, offset |-> 0, length |-> 0, kind |-> kind]

NoDesc == [id |-> 0, name |-> <<>>]

NoRef == [blob_id |-> <<>>, offset |-> 0, length |-> 0, kind |-> "TreeLeaf"]

NoReply == [type |-> "none"]

\* Events in the life of a callback: called with an argument, or dropped uncalled.
Call(arg) == [ev |-> "call", arg |-> arg]

DropEvent == [ev |-> "drop"]

VARIABLES
    max_blob_size,  \* Store.max_blob_size
    backend,        \* backend contents: name -> bytes
    blob_index,     \* rows of the index table
    next_id,        \* the index's id counter
    blob_desc,      \* Store.blob_desc, the current blob
    blob_data,      \* Store.blob_data, the staging buffer
    blob_refs,      \* Store.blob_refs, the pending (ChunkRef, callback) queue
    pc,             \* position of the store thread
    ret,            \* who called flush(): "store" (maybe_flush) or "flush"
    id,             \* local `id` of the Store handler
    old_blob_desc,  \* local of flush()
    old_blob,       \* local of flush()
    reply,          \* the reply emitted for the request in hand, NoReply if none yet
    spawned,        \* threads spawned for empty-chunk callbacks, not yet run
    stores,         \* history: chunk and returned ChunkRef of every Store
    cbLog,          \* history: what happened to each Store's callback
    flushedUpTo,    \* history: number of Stores handled before the last FlushOk
    touched,        \* history: the backend was called for the request in hand
    phase,          \* history: how far a tag-closure scenario has got
    vals,           \* SyncPool.vals: the values in the pool (Mutex<Vec<V>>)
    mutex,          \* the thread holding the mutex of SyncPool.vals, 0 if none
    tpc,            \* position of each thread using the pool
    guard,          \* SyncPoolGuard.v of each thread: the value held, 0 if None
    usize_bytes,    \* size of usize on the target, in bytes
    cref,           \* the ChunkRef handed to as_bytes
    wire,           \* the bytes as_bytes returned
    decoded,        \* what from_bytes returned
    cpc             \* how far the codec round trip has got

blobVars == <<max_blob_size, backend, blob_index, next_id, blob_desc, blob_data,
              blob_refs, pc, ret, id, old_blob_desc, old_blob, reply, spawned,
              stores, cbLog, flushedUpTo, touched, phase>>

poolVars == <<vals, mutex, tpc, guard>>

codecVars == <<usize_bytes, cref, wire, decoded, cpc>>

\* What the blob store leaves alone.
elsewhere == <<poolVars, codecVars>>

\* What the pool leaves alone.
outsidePool == <<blobVars, codecVars>>

\* What the codec leaves alone.
outsideCodec == <<blobVars, poolVars>>

vars == <<blobVars, poolVars, codecVars>>

storeState == <<max_blob_size, backend, blob_index, next_id, blob_desc,
                blob_data, blob_refs>>

flushLocals == <<ret, id, old_blob_desc, old_blob>>

history == <<stores, cbLog, flushedUpTo>>

\* ------------------------------------------------- tag-closure scenario
\* phase follows the requests handled so far: "sf" while they were only Store,
\* Flush and Retrieve; the tag t once TagAll(t) came next; "closed" once
\* DeleteByTag(t) came right after it and replied Ok; "rewritten" once a flush
\* wrote to the backend after that, with no new chunk stored in between;
\* "off" in every other case.
AfterRequest(ph) == IF ph \in Tags THEN "off" ELSE ph

AfterStore(ph) == IF ph = "sf" THEN "sf" ELSE "off"

AfterTag(ph) == IF ph \in {"closed", "rewritten"} THEN ph ELSE "off"

AfterTagAll(ph, t) == IF ph = "sf" THEN t ELSE AfterTag(ph)

AfterDeleteByTag(ph, t, ok) == IF ph = t /\ ok THEN "closed" ELSE AfterTag(ph)

AfterBackendStore(ph) == IF ph = "closed" THEN "rewritten" ELSE ph

\* ------------------------------------------------------------ blob index
Row(i, st, tg) == [id |-> i, name |-> NameOf(i), state |-> st, tag |-> tg]

\* reserve(): a new row in Reserved with a fresh id and the name derived from it.
IndexReserve(idx, i) == idx \cup {Row(i, "Reserved", NoTag)}

\* in_air(desc): Reserved -> InAir for the row of that name.
in_air(idx, desc) ==
    {IF r.name = desc.name /\ r.state = "Reserved"
        THEN [r EXCEPT !.state = "InAir"] ELSE r : r \in idx}

\* commit_done(desc): InAir -> Committed for the row of that name.
commit_done(idx, desc) ==
    {IF r.name = desc.name /\ r.state = "InAir"
        THEN [r EXCEPT !.state = "Committed"] ELSE r : r \in idx}

\* tag(desc, tag): set the tag of the row looked up by name.
tag(idx, name, t) ==
    {IF r.name = name THEN [r EXCEPT !.tag = t] ELSE r : r \in idx}

tag_all(idx, t) == {[r EXCEPT !.tag = t] : r \in idx}

TaggedRows(idx, t) == {r \in idx : r.tag = t}

RECURSIVE SortById(_)
SortById(rows) ==
    IF rows = {} THEN <<>>
    ELSE LET m == CHOOSE r \in rows : \A q \in rows : r.id <= q.id
         IN  <<m>> \o SortById(rows \ {m})

\* list_by_tag(tag): the descriptors of the rows carrying the tag.
list_by_tag(idx, t) ==
    LET s == SortById(TaggedRows(idx, t))
    IN  [i \in 1..Len(s) |-> [id |-> s[i].id, name |-> s[i].name]]

delete_by_tag(idx, t) == idx \ TaggedRows(idx, t)

RowsNamed(idx, name) == {r \in idx : r.name = name}

StateOf(idx, name) ==
    IF RowsNamed(idx, name) = {} THEN "Absent"
    ELSE (CHOOSE r \in RowsNamed(idx, name) : TRUE).state

\* --------------------------------------------------------------- backend
Has(be, name) == name \in DOMAIN be

BackendStore(be, name, data) ==
    [n \in DOMAIN be \cup {name} |-> IF n = name THEN data ELSE be[n]]

BackendDelete(be, name) == [n \in DOMAIN be \ {name} |-> be[n]]

\* backend.delete(&b.name) for the first k of blobs.
RECURSIVE BackendDeleteAll(_, _, _)
BackendDeleteAll(be, blobs, k) ==
    IF k = 0 THEN be
    ELSE BackendDelete(BackendDeleteAll(be, blobs, k - 1), blobs[k].name)

\* ------------------------------------------------------------------ init
\* Store::new(index, backend, max_blob_size) on an empty index and backend.
New(size) ==
    /\ max_blob_size = size
    /\ backend = <<>>
    /\ blob_index = IndexReserve({}, 1)
    /\ next_id = 2
    /\ blob_desc = [id |-> 1, name |-> NameOf(1)]
    /\ blob_data = <<>>
    /\ blob_refs = <<>>
    /\ pc = "idle"
    /\ ret = "none"
    /\ id = NoRef
    /\ old_blob_desc = NoDesc
    /\ old_blob = <<>>
    /\ reply = NoReply
    /\ spawned = {}
    /\ stores = <<>>
    /\ cbLog = <<>>
    /\ flushedUpTo = 0
    /\ touched = FALSE
    /\ phase = "sf"

\* ----------------------------------------------------------------- Store
\* The empty chunk is treated like any other: its ChunkRef names the current
\* blob and its pair is queued.
StoreEmptyQueued(kind) ==
    /\ pc = "idle"
    /\ reply' = [type |-> "StoreOk",
                 ref |-> [blob_id |-> blob_desc.name, offset |-> Len(blob_data),
                          length |-> 0, kind |-> kind]]
    /\ blob_refs' = Append(blob_refs, [ref |-> reply'.ref, cb |-> Len(stores) + 1])
    /\ stores' = Append(stores, [chunk |-> <<>>, ref |-> reply'.ref])
    /\ cbLog' = Append(cbLog, <<>>)
    /\ touched' = FALSE
    /\ phase' = AfterRequest(phase)
    /\ UNCHANGED <<max_blob_size, backend, blob_index, next_id, blob_desc,
                   blob_data, pc, flushLocals, spawned, flushedUpTo>>
    /\ UNCHANGED elsewhere

\* Msg::Store with an empty chunk: the sentinel is returned, the callback is
\* handed to a new thread.
StoreEmpty(kind) ==
    /\ pc = "idle"
    /\ spawned' = spawned \cup {[cb |-> Len(stores) + 1, arg |-> Sentinel(kind)]}
    /\ reply' = [type |-> "StoreOk", ref |-> Sentinel(kind)]
    /\ stores' = Append(stores, [chunk |-> <<>>, ref |-> Sentinel(kind)])
    /\ cbLog' = Append(cbLog, <<>>)
    /\ touched' = FALSE
    /\ phase' = AfterRequest(phase)
    /\ UNCHANGED <<storeState, pc, flushLocals, flushedUpTo>>
    /\ UNCHANGED elsewhere

\* The spawned thread runs the callback.
CallbackThread ==
    \E t \in spawned :
        /\ spawned' = spawned \ {t}
        /\ cbLog' = [cbLog EXCEPT ![t.cb] = Append(@, Call(t.arg))]
        /\ UNCHANGED <<storeState, pc, flushLocals, reply, stores,
                       flushedUpTo, touched, phase>>
        /\ UNCHANGED elsewhere

\* The ChunkRef is built with offset 0 whatever the buffer holds.
NewChunkRefAtStart(chunk, kind) ==
    [blob_id |-> blob_desc.name, offset |-> 0,
     length |-> Len(chunk), kind |-> kind]

\* The ChunkRef built for a non-empty chunk.
NewChunkRef(chunk, kind) ==
    [blob_id |-> blob_desc.name, offset |-> Len(blob_data),
     length |-> Len(chunk), kind |-> kind]

\* Msg::Store with a non-empty chunk, up to the reply: the pair is queued and
\* the chunk appended.
StoreStage(chunk, kind) ==
    /\ pc = "idle"
    /\ chunk # <<>>
    /\ reply' = NoReply
    /\ id' = NewChunkRef(chunk, kind)
    /\ blob_refs' = Append(blob_refs, [ref |-> id', cb |-> Len(stores) + 1])
    /\ blob_data' = blob_data \o chunk
    /\ stores' = Append(stores, [chunk |-> chunk, ref |-> id'])
    /\ cbLog' = Append(cbLog, <<>>)
    /\ touched' = FALSE
    /\ pc' = "store_reply"
    /\ phase' = AfterStore(phase)
    /\ UNCHANGED <<max_blob_size, backend, blob_index, next_id, blob_desc, ret,
                   old_blob_desc, old_blob, spawned, flushedUpTo>>
    /\ UNCHANGED elsewhere

\* The handler goes on to maybe_flush without having replied.
StoreReplyDeferred ==
    /\ pc = "store_reply"
    /\ pc' = "maybe_flush"
    /\ UNCHANGED <<storeState, flushLocals, reply, spawned, history, touched, phase>>
    /\ UNCHANGED elsewhere

\* reply(Ok(Reply::StoreOk(id)))
StoreReply ==
    /\ pc = "store_reply"
    /\ reply' = [type |-> "StoreOk", ref |-> id]
    /\ pc' = "maybe_flush"
    /\ UNCHANGED phase
    /\ UNCHANGED <<storeState, flushLocals, spawned, history, touched>>
    /\ UNCHANGED elsewhere

\* The buffer is flushed after every Store, whatever its size.
MaybeFlushEager ==
    /\ pc = "maybe_flush"
    /\ pc' = "flush"
    /\ ret' = "store"
    /\ id' = NoRef
    /\ UNCHANGED <<storeState, old_blob_desc, old_blob, reply, spawned,
                   history, touched, phase>>
    /\ UNCHANGED elsewhere

\* The buffer is flushed only once it has grown beyond max_blob_size.
MaybeFlushStrict ==
    /\ pc = "maybe_flush"
    /\ IF Len(blob_data) > max_blob_size
          THEN pc' = "flush" /\ ret' = "store"
          ELSE pc' = "idle" /\ ret' = "none"
    /\ id' = NoRef
    /\ UNCHANGED phase
    /\ UNCHANGED <<storeState, old_blob_desc, old_blob, reply, spawned,
                   history, touched>>
    /\ UNCHANGED elsewhere

\* maybe_flush(): flush when the staging buffer has reached max_blob_size.
MaybeFlush ==
    /\ pc = "maybe_flush"
    /\ IF Len(blob_data) >= max_blob_size
          THEN pc' = "flush" /\ ret' = "store"
          ELSE pc' = "idle" /\ ret' = "none"
    /\ id' = NoRef
    /\ UNCHANGED phase
    /\ UNCHANGED <<storeState, old_blob_desc, old_blob, reply, spawned,
                   history, touched>>
    /\ UNCHANGED elsewhere

\* ----------------------------------------------------------------- flush
\* Msg::Flush: the handler enters flush().
FlushReq ==
    /\ pc = "idle"
    /\ reply' = NoReply
    /\ touched' = FALSE
    /\ pc' = "flush"
    /\ ret' = "flush"
    /\ phase' = AfterRequest(phase)
    /\ UNCHANGED <<storeState, id, old_blob_desc, old_blob, spawned, history>>
    /\ UNCHANGED elsewhere

\* flush() keeps the current blob instead of reserving the next one.
FlushBeginSameBlob ==
    /\ pc = "flush"
    /\ IF Len(blob_data) = 0
          THEN /\ pc' = "flush_done"
               /\ UNCHANGED <<blob_index, next_id, blob_desc, blob_data,
                              old_blob_desc, old_blob>>
          ELSE /\ UNCHANGED <<blob_index, next_id, blob_desc>>
               /\ old_blob_desc' = blob_desc
               /\ old_blob' = blob_data
               /\ blob_data' = <<>>
               /\ pc' = "in_air"
    /\ UNCHANGED phase
    /\ UNCHANGED <<max_blob_size, backend, blob_refs, ret, id, reply,
                   spawned, history, touched>>
    /\ UNCHANGED elsewhere

\* flush(): nothing to do on an empty buffer; otherwise reserve the next blob
\* and swap the descriptor and the buffer out.
FlushBegin ==
    /\ pc = "flush"
    /\ IF Len(blob_data) = 0
          THEN /\ pc' = "flush_done"
               /\ UNCHANGED <<blob_index, next_id, blob_desc, blob_data,
                              old_blob_desc, old_blob>>
          ELSE /\ blob_index' = IndexReserve(blob_index, next_id)
               /\ blob_desc' = [id |-> next_id, name |-> NameOf(next_id)]
               /\ next_id' = next_id + 1
               /\ old_blob_desc' = blob_desc
               /\ old_blob' = blob_data
               /\ blob_data' = <<>>
               /\ pc' = "in_air"
    /\ UNCHANGED phase
    /\ UNCHANGED <<max_blob_size, backend, blob_refs, ret, id, reply,
                   spawned, history, touched>>
    /\ UNCHANGED elsewhere

\* self.blob_index.in_air(&old_blob_desc)
FlushInAir ==
    /\ pc = "in_air"
    /\ blob_index' = in_air(blob_index, old_blob_desc)
    /\ pc' = "backend_store"
    /\ UNCHANGED phase
    /\ UNCHANGED <<max_blob_size, backend, next_id, blob_desc, blob_data,
                   blob_refs, flushLocals, reply, spawned, history,
                   touched>>
    /\ UNCHANGED elsewhere

\* The backend call reports success without having written the blob.
FlushBackendStoreSkipped ==
    /\ pc = "backend_store"
    /\ touched' = TRUE
    /\ pc' = "commit"
    /\ UNCHANGED <<storeState, flushLocals, reply, spawned, history, phase>>
    /\ UNCHANGED elsewhere

\* self.backend.store(name, old_blob).expect(..): an error ends the store.
FlushBackendStore ==
    /\ pc = "backend_store"
    /\ touched' = TRUE
    /\ \E ok \in BOOLEAN :
          IF ok
             THEN /\ backend' = BackendStore(backend, old_blob_desc.name, old_blob)
                  /\ pc' = "commit"
                  /\ phase' = AfterBackendStore(phase)
             ELSE /\ backend' = backend
                  /\ pc' = "dead"
                  /\ phase' = phase
    /\ UNCHANGED <<max_blob_size, blob_index, next_id, blob_desc, blob_data,
                   blob_refs, flushLocals, reply, spawned, history>>
    /\ UNCHANGED elsewhere

\* self.blob_index.commit_done(&old_blob_desc)
FlushCommit ==
    /\ pc = "commit"
    /\ blob_index' = commit_done(blob_index, old_blob_desc)
    /\ pc' = "callbacks"
    /\ UNCHANGED phase
    /\ UNCHANGED <<max_blob_size, backend, next_id, blob_desc, blob_data,
                   blob_refs, flushLocals, reply, spawned, history,
                   touched>>
    /\ UNCHANGED elsewhere

\* The queue after blob_refs.pop().
Popped(q) == SubSeq(q, 1, Len(q) - 1)

\* The callbacks are left in the queue, uncalled.
FlushCallbackSkipped ==
    /\ pc = "callbacks"
    /\ pc' = "flush_done"
    /\ UNCHANGED <<storeState, flushLocals, reply, spawned, history, touched, phase>>
    /\ UNCHANGED elsewhere

\* Each callback is called with the ChunkRef at the head of the queue.
FlushCallbackFirstRef ==
    /\ pc = "callbacks"
    /\ IF blob_refs # <<>>
          THEN /\ cbLog' = [cbLog EXCEPT ![blob_refs[Len(blob_refs)].cb] =
                                Append(@, Call(blob_refs[1].ref))]
               /\ blob_refs' = Popped(blob_refs)
               /\ pc' = pc
          ELSE /\ pc' = "flush_done"
               /\ UNCHANGED <<cbLog, blob_refs>>
    /\ UNCHANGED <<max_blob_size, backend, blob_index, next_id, blob_desc,
                   blob_data, flushLocals, reply, spawned, stores,
                   flushedUpTo, touched, phase>>
    /\ UNCHANGED elsewhere

\* while let Some((blobid, callback)) = self.blob_refs.pop() { callback.call(blobid) }
FlushCallback ==
    /\ pc = "callbacks"
    /\ IF blob_refs # <<>>
          THEN /\ cbLog' = [cbLog EXCEPT ![blob_refs[Len(blob_refs)].cb] =
                                Append(@, Call(blob_refs[Len(blob_refs)].ref))]
               /\ blob_refs' = Popped(blob_refs)
               /\ pc' = pc
          ELSE /\ pc' = "flush_done"
               /\ UNCHANGED <<cbLog, blob_refs>>
    /\ UNCHANGED phase
    /\ UNCHANGED <<max_blob_size, backend, blob_index, next_id, blob_desc,
                   blob_data, flushLocals, reply, spawned, stores,
                   flushedUpTo, touched>>
    /\ UNCHANGED elsewhere

\* flush() returns: Store returns Ok(()); Flush calls blob_index.flush() and
\* replies FlushOk.
FlushDone ==
    /\ pc = "flush_done"
    /\ IF ret = "flush"
          THEN /\ reply' = [type |-> "FlushOk"]
               /\ flushedUpTo' = Len(stores)
          ELSE UNCHANGED <<reply, flushedUpTo>>
    /\ pc' = "idle"
    /\ ret' = "none"
    /\ old_blob_desc' = NoDesc
    /\ old_blob' = <<>>
    /\ UNCHANGED phase
    /\ UNCHANGED <<storeState, id, spawned, stores, cbLog, touched>>
    /\ UNCHANGED elsewhere

\* -------------------------------------------------------------- Retrieve
\* The ChunkRefs a caller may present: those it was given, and the sentinels.
KnownRefs == {stores[i].ref : i \in 1..Len(stores)} \cup {Sentinel(k) : k \in Kinds}

\* Slice with the offset ignored.
SliceFromStart(blob, offset, length) == SubSeq(blob, 1, length)

\* &blob[id.offset..id.offset + id.length]
Slice(blob, offset, length) == SubSeq(blob, offset + 1, offset + length)

\* What Retrieve computes from the backend's contents: the reply, or NoReply
\* when backend.retrieve(..).expect(..) or the slice panics.
RetrieveOutcome(be, r) ==
    IF r.offset = 0 /\ r.length = 0
       THEN [type |-> "RetrieveOk", data |-> <<>>]
       ELSE IF Has(be, r.blob_id) /\ r.offset + r.length <= Len(be[r.blob_id])
               THEN [type |-> "RetrieveOk",
                     data |-> Slice(be[r.blob_id], r.offset, r.length)]
               ELSE NoReply

\* Retrieve calls the backend for every ChunkRef.
CallsBackendAlways(r) == TRUE

\* Retrieve calls the backend unless offset and length are both 0.
CallsBackend(r) == ~(r.offset = 0 /\ r.length = 0)

\* Msg::Retrieve(id): when the backend is called it may also fail with an I/O
\* error (ok = FALSE); a panic ends the store.
Retrieve(r) ==
    /\ pc = "idle"
    /\ touched' = CallsBackend(r)
    /\ \E ok \in (IF CallsBackend(r) THEN BOOLEAN ELSE {TRUE}) :
          /\ reply' = (IF ok THEN RetrieveOutcome(backend, r) ELSE NoReply)
          /\ pc' = (IF reply' = NoReply THEN "dead" ELSE "idle")
    /\ phase' = AfterRequest(phase)
    /\ UNCHANGED <<storeState, flushLocals, spawned, history>>
    /\ UNCHANGED elsewhere

\* ------------------------------------------------------------------ tags
\* Msg::Tag(chunk, tag)
Tag(r, t) ==
    /\ pc = "idle"
    /\ blob_index' = tag(blob_index, r.blob_id, t)
    /\ reply' = [type |-> "Ok"]
    /\ touched' = FALSE
    /\ phase' = AfterTag(phase)
    /\ UNCHANGED <<max_blob_size, backend, next_id, blob_desc, blob_data,
                   blob_refs, pc, flushLocals, spawned, history>>
    /\ UNCHANGED elsewhere

\* Msg::TagAll(tag)
TagAll(t) ==
    /\ pc = "idle"
    /\ blob_index' = tag_all(blob_index, t)
    /\ reply' = [type |-> "Ok"]
    /\ touched' = FALSE
    /\ phase' = AfterTagAll(phase, t)
    /\ UNCHANGED <<max_blob_size, backend, next_id, blob_desc, blob_data,
                   blob_refs, pc, flushLocals, spawned, history>>
    /\ UNCHANGED elsewhere

\* The index rows are removed before the backend blobs are deleted.
DeleteByTagRowsFirst(t) ==
    /\ pc = "idle"
    /\ LET blobs == list_by_tag(blob_index, t)
       IN  \E k \in 0..Len(blobs) :
              /\ backend' = BackendDeleteAll(backend, blobs, k)
              /\ touched' = (Len(blobs) > 0)
              /\ reply' = [type |-> IF k < Len(blobs) THEN "Err" ELSE "Ok"]
              /\ blob_index' = delete_by_tag(blob_index, t)
              /\ phase' = AfterDeleteByTag(phase, t, k = Len(blobs))
    /\ UNCHANGED <<max_blob_size, next_id, blob_desc, blob_data, blob_refs, pc,
                   flushLocals, spawned, history>>
    /\ UNCHANGED elsewhere

\* Msg::DeleteByTag(tag): the listed blobs are deleted from the backend one by
\* one; the first error is the reply.  k blobs are deleted before the error,
\* k = Len(blobs) when there is none.
DeleteByTag(t) ==
    /\ pc = "idle"
    /\ LET blobs == list_by_tag(blob_index, t)
       IN  \E k \in 0..Len(blobs) :
              /\ backend' = BackendDeleteAll(backend, blobs, k)
              /\ touched' = (Len(blobs) > 0)
              /\ IF k < Len(blobs)
                    THEN /\ reply' = [type |-> "Err"]
                         /\ blob_index' = blob_index
                    ELSE /\ reply' = [type |-> "Ok"]
                         /\ blob_index' = delete_by_tag(blob_index, t)
              /\ phase' = AfterDeleteByTag(phase, t, k = Len(blobs))
    /\ UNCHANGED <<max_blob_size, next_id, blob_desc, blob_data, blob_refs, pc,
                   flushLocals, spawned, history>>
    /\ UNCHANGED elsewhere

\* ----------------------------------------------------------------- reset
\* self.blob_refs.clear(): the queued callbacks are dropped without a call.
Dropped(log, q) ==
    [k \in 1..Len(log) |->
        IF \E j \in 1..Len(q) : q[j].cb = k THEN Append(log[k], DropEvent) ELSE log[k]]

\* MsgHandler::reset: the index is truncated (its counter starts again from
\* the empty table), the queue and the buffer are cleared, a new blob is
\* reserved.
Reset ==
    /\ pc = "idle"
    /\ reply' = NoReply
    /\ blob_index' = IndexReserve({}, 1)
    /\ blob_desc' = [id |-> 1, name |-> NameOf(1)]
    /\ next_id' = 2
    /\ blob_refs' = <<>>
    /\ blob_data' = <<>>
    /\ cbLog' = Dropped(cbLog, blob_refs)
    /\ touched' = FALSE
    /\ phase' = "off"
    /\ UNCHANGED <<max_blob_size, backend, pc, flushLocals, spawned, stores,
                   flushedUpTo>>
    /\ UNCHANGED elsewhere

\* -------------------------------------------------------------- SyncPool
\* src/src/util/sync_pool.rs.  A thread is "idle" (outside the pool, without a
\* guard), "lock" (in lock(), before self.vals.lock()), "locked" (in lock(),
\* holding the mutex, at the while test), "waiting" (inside cond.wait, the
\* mutex released), "woken" (cond.wait about to take the mutex again),
\* "holding" (lock() has returned a guard), "drop" (in drop(), before
\* self.m.vals.lock()) or "dropping" (in drop(), holding the mutex).
Threads == 1..NumThreads

Values == 1..NumValues

\* SyncPool::new(vals)
PoolNew ==
    /\ vals = [i \in 1..NumValues |-> i]
    /\ mutex = 0
    /\ tpc = [t \in Threads |-> "idle"]
    /\ guard = [t \in Threads |-> 0]

\* A thread calls lock().
LockCall(t) ==
    /\ tpc[t] = "idle"
    /\ tpc' = [tpc EXCEPT ![t] = "lock"]
    /\ UNCHANGED <<vals, mutex, guard, outsidePool>>

\* let mut vs = try!(self.vals.lock())
LockMutex(t) ==
    /\ tpc[t] = "lock"
    /\ mutex = 0
    /\ mutex' = t
    /\ tpc' = [tpc EXCEPT ![t] = "locked"]
    /\ UNCHANGED <<vals, guard, outsidePool>>

\* The last value is handed out and left in the pool.
LockCheckPeek(t) ==
    /\ tpc[t] = "locked"
    /\ mutex' = 0
    /\ IF Len(vals) = 0
          THEN /\ tpc' = [tpc EXCEPT ![t] = "waiting"]
               /\ UNCHANGED <<vals, guard>>
          ELSE /\ guard' = [guard EXCEPT ![t] = vals[Len(vals)]]
               /\ tpc' = [tpc EXCEPT ![t] = "holding"]
               /\ UNCHANGED vals
    /\ UNCHANGED outsidePool

\* while vs.len() == 0 { vs = try!(self.cond.wait(vs)) }: on an empty pool the
\* thread releases the mutex and waits; otherwise vs.pop().unwrap(), the
\* mutex is released at the end of the block and the guard is returned.
LockCheck(t) ==
    /\ tpc[t] = "locked"
    /\ mutex' = 0
    /\ IF Len(vals) = 0
          THEN /\ tpc' = [tpc EXCEPT ![t] = "waiting"]
               /\ UNCHANGED <<vals, guard>>
          ELSE /\ guard' = [guard EXCEPT ![t] = vals[Len(vals)]]
               /\ vals' = SubSeq(vals, 1, Len(vals) - 1)
               /\ tpc' = [tpc EXCEPT ![t] = "holding"]
    /\ UNCHANGED outsidePool

\* Condvar::wait may return without a notification.
SpuriousWakeup(t) ==
    /\ tpc[t] = "waiting"
    /\ tpc' = [tpc EXCEPT ![t] = "woken"]
    /\ UNCHANGED <<vals, mutex, guard, outsidePool>>

\* cond.wait returns with the mutex held again; the while test comes next.
LockWake(t) ==
    /\ tpc[t] = "woken"
    /\ mutex = 0
    /\ mutex' = t
    /\ tpc' = [tpc EXCEPT ![t] = "locked"]
    /\ UNCHANGED <<vals, guard, outsidePool>>

\* The guard goes out of scope: drop() is entered.
DropCall(t) ==
    /\ tpc[t] = "holding"
    /\ tpc' = [tpc EXCEPT ![t] = "drop"]
    /\ UNCHANGED <<vals, mutex, guard, outsidePool>>

\* let mut vals = self.m.vals.lock().unwrap()
DropMutex(t) ==
    /\ tpc[t] = "drop"
    /\ mutex = 0
    /\ mutex' = t
    /\ tpc' = [tpc EXCEPT ![t] = "dropping"]
    /\ UNCHANGED <<vals, guard, outsidePool>>

\* The threads inside cond.wait that have not been notified.
Waiting == {u \in Threads : tpc[u] = "waiting"}

\* The value is pushed and nobody is notified.
DropPushSilent(t) ==
    /\ tpc[t] = "dropping"
    /\ vals' = Append(vals, guard[t])
    /\ guard' = [guard EXCEPT ![t] = 0]
    /\ tpc' = [tpc EXCEPT ![t] = "idle"]
    /\ mutex' = 0
    /\ UNCHANGED outsidePool

\* vals.push(v.unwrap()); self.m.cond.notify_one(); the mutex is released when
\* drop() returns.  notify_one wakes one waiting thread, if there is any.
DropPush(t) ==
    /\ tpc[t] = "dropping"
    /\ vals' = Append(vals, guard[t])
    /\ guard' = [guard EXCEPT ![t] = 0]
    /\ IF Waiting = {}
          THEN tpc' = [tpc EXCEPT ![t] = "idle"]
          ELSE \E u \in Waiting : tpc' = [tpc EXCEPT ![t] = "idle", ![u] = "woken"]
    /\ mutex' = 0
    /\ UNCHANGED outsidePool

\* ----------------------------------------------------------------- codec
\* ChunkRef::as_bytes / ChunkRef::from_bytes.  Machine integers are kept as
\* their bytes, least significant first: a usize has usize_bytes of them, an
\* i64 has 8, and it is negative when the top bit of the last byte is set.
I64Bytes == 8

UsizeWidths == {4, I64Bytes}

SampleBytes == {0, 127, 128, 255}

\* The usize values tried: every choice of the lowest and the highest byte.
UsizeSamples(w) == {[i \in 1..w |-> IF i = 1 THEN lo ELSE IF i = w THEN hi ELSE 0] :
                       lo \in SampleBytes, hi \in SampleBytes}

NameBytes == {0, 255}

Names == UNION {[1..n -> NameBytes] : n \in 0..MaxNameLen}

CodecInputs(w) ==
    [blob_id : Names, offset : UsizeSamples(w), length : UsizeSamples(w), kind : Kinds]

Negative(i) == i[I64Bytes] >= 128

\* `u as i64` on a usize: zero-extended to 8 bytes; with an 8-byte usize the
\* same bytes, read as signed.
AsI64(u) == [i \in 1..I64Bytes |-> IF i <= Len(u) THEN u[i] ELSE 0]

\* The cast maps a negative i64 to 0.
AsUsizeClamped(i, w) ==
    IF Negative(i) THEN [k \in 1..w |-> 0] ELSE [k \in 1..w |-> i[k]]

\* `i as usize` on an i64: the low usize_bytes bytes.
AsUsize(i, w) == [k \in 1..w |-> i[k]]

\* The discriminant of the kind union, as written to the message.
Which(kind) == IF kind = "TreeBranch" THEN 0 ELSE 1

\* populate_msg: the fields of the chunk_ref message.
PopulateMsg(x) ==
    [blobId |-> x.blob_id, offset |-> AsI64(x.offset), length |-> AsI64(x.length),
     which |-> Which(x.kind)]

\* write_message: the data section (offset, length, discriminant) followed by
\* the blob_id with its byte count.
WriteMessage(msg) ==
    msg.offset \o msg.length \o <<msg.which, 0>> \o <<Len(msg.blobId)>> \o msg.blobId

\* as_bytes
AsBytes(x) == WriteMessage(PopulateMsg(x))

HeaderLen == 2 * I64Bytes + 3

\* read_message: the message read back from the bytes, or an error when they
\* are cut short.
ReadMessage(bytes) ==
    IF Len(bytes) < HeaderLen \/ Len(bytes) # HeaderLen + bytes[HeaderLen]
       THEN [ok |-> FALSE]
       ELSE [ok |-> TRUE,
             msg |-> [blobId |-> SubSeq(bytes, HeaderLen + 1, Len(bytes)),
                      offset |-> SubSeq(bytes, 1, I64Bytes),
                      length |-> SubSeq(bytes, I64Bytes + 1, 2 * I64Bytes),
                      which |-> bytes[2 * I64Bytes + 1]]]

\* read_msg: the ChunkRef of a message; an unknown discriminant is an error.
ReadMsg(msg, w) ==
    IF msg.which \notin {0, 1}
       THEN [ok |-> FALSE]
       ELSE [ok |-> TRUE,
             ref |-> [blob_id |-> msg.blobId,
                      offset |-> AsUsize(msg.offset, w),
                      length |-> AsUsize(msg.length, w),
                      kind |-> IF msg.which = 0 THEN "TreeBranch" ELSE "TreeLeaf"]]

\* from_bytes
FromBytes(bytes, w) ==
    LET m == ReadMessage(bytes)
    IN  IF m.ok THEN ReadMsg(m.msg, w) ELSE [ok |-> FALSE]

\* The codec with the ChunkRef x in hand, on a target with w-byte usize.
CodecNew(x, w) ==
    /\ usize_bytes = w
    /\ cref = x
    /\ wire = <<>>
    /\ decoded = [ok |-> FALSE]
    /\ cpc = "input"

\* let blob_id_bytes = blob_id.as_bytes()
Encode ==
    /\ cpc = "input"
    /\ wire' = AsBytes(cref)
    /\ cpc' = "encoded"
    /\ UNCHANGED <<usize_bytes, cref, decoded, outsideCodec>>

\* ChunkRef::from_bytes(&mut &blob_id_bytes[..])
Decode ==
    /\ cpc = "encoded"
    /\ decoded' = FromBytes(wire, usize_bytes)
    /\ cpc' = "decoded"
    /\ UNCHANGED <<usize_bytes, cref, wire, outsideCodec>>

\* ------------------------------------------------------------------ spec
\* The codec at rest, with the empty-chunk sentinel in hand.
CodecAtRest ==
    CodecNew([blob_id |-> SentinelName, offset |-> [i \in 1..I64Bytes |-> 0],
              length |-> [i \in 1..I64Bytes |-> 0], kind |-> "TreeLeaf"],
             I64Bytes)

Init ==
    /\ \E size \in 1..MaxBlobSize : New(size)
    /\ PoolNew
    /\ CodecAtRest

Next ==
    \/ \E k \in Kinds : Len(stores) < MaxStores /\ StoreEmpty(k)
    \/ CallbackThread
    \/ \E c \in Chunks, k \in LeafKinds : Len(stores) < MaxStores /\ StoreStage(c, k)
    \/ StoreReply
    \/ MaybeFlush
    \/ FlushReq
    \/ FlushBegin
    \/ FlushInAir
    \/ FlushBackendStore
    \/ FlushCommit
    \/ FlushCallback
    \/ FlushDone
    \/ \E r \in KnownRefs : Retrieve(r)
    \/ \E r \in KnownRefs, t \in Tags : Tag(r, t)
    \/ \E t \in Tags : TagAll(t)
    \/ \E t \in Tags : DeleteByTag(t)
    \/ Reset

Spec == Init /\ [][Next]_vars

\* Only Store, Flush and Retrieve requests.
NextStoreFlush ==
    \/ \E k \in Kinds : Len(stores) < MaxStores /\ StoreEmpty(k)
    \/ CallbackThread
    \/ \E c \in Chunks, k \in LeafKinds : Len(stores) < MaxStores /\ StoreStage(c, k)
    \/ StoreReply
    \/ MaybeFlush
    \/ FlushReq
    \/ FlushBegin
    \/ FlushInAir
    \/ FlushBackendStore
    \/ FlushCommit
    \/ FlushCallback
    \/ FlushDone
    \/ \E r \in KnownRefs : Retrieve(r)

SpecStoreFlush == Init /\ [][NextStoreFlush]_vars

\* The scenario of three equal chunks under the blob size the tests use:
\* three Stores, then Flush and Retrieve.
ScenarioBlobSize == 1024

ScenarioChunkLen == 500

ScenarioStores == 3

ScenarioChunk(b) == [i \in 1..ScenarioChunkLen |-> b]

InitScenario == New(ScenarioBlobSize) /\ PoolNew /\ CodecAtRest

NextScenario ==
    \/ \E b \in Byte, k \in LeafKinds :
          Len(stores) < ScenarioStores /\ StoreStage(ScenarioChunk(b), k)
    \/ StoreReply
    \/ MaybeFlush
    \/ Len(stores) = ScenarioStores /\ FlushReq
    \/ FlushBegin
    \/ FlushInAir
    \/ FlushBackendStore
    \/ FlushCommit
    \/ FlushCallback
    \/ FlushDone
    \/ \E r \in KnownRefs : Retrieve(r)

SpecScenario == InitScenario /\ [][NextScenario]_vars

\* Threads using one pool.
NextPool ==
    \/ \E t \in Threads : LockCall(t)
    \/ \E t \in Threads : LockMutex(t)
    \/ \E t \in Threads : LockCheck(t)
    \/ \E t \in Threads : SpuriousWakeup(t)
    \/ \E t \in Threads : LockWake(t)
    \/ \E t \in Threads : DropCall(t)
    \/ \E t \in Threads : DropMutex(t)
    \/ \E t \in Threads : DropPush(t)

SpecPool == Init /\ [][NextPool]_vars

\* A thread inside lock() or drop() goes on running (weak fairness), and a
\* thread that wants the mutex gets it if the mutex is free again and again
\* (strong fairness); a guard is dropped in the end.  Nothing makes a thread
\* call lock(), and nothing makes cond.wait return without a notification.
PoolFairness ==
    \A t \in Threads :
        /\ SF_vars(LockMutex(t))
        /\ WF_vars(LockCheck(t))
        /\ SF_vars(LockWake(t))
        /\ WF_vars(DropCall(t))
        /\ SF_vars(DropMutex(t))
        /\ WF_vars(DropPush(t))

SpecPoolFair == Init /\ [][NextPool]_vars /\ PoolFairness

\* The round trip of the codec, on every input tried.
InitCodec ==
    /\ New(MaxBlobSize)
    /\ PoolNew
    /\ \E w \in UsizeWidths : \E x \in CodecInputs(w) : CodecNew(x, w)

NextCodec ==
    \/ Encode
    \/ Decode

SpecCodec == InitCodec /\ [][NextCodec]_vars

TypeOK ==
    /\ pc \in {"idle", "store_reply", "maybe_flush", "flush", "in_air",
               "backend_store", "commit", "callbacks", "flush_done", "dead"}
    /\ Len(stores) <= MaxStores \/ max_blob_size = ScenarioBlobSize
    /\ Len(cbLog) = Len(stores)

\* --------------------------------------------------------------- claims
RetrieveOk(data) == [type |-> "RetrieveOk", data |-> data]

\* C1: with only Store, Flush and Retrieve requests, once a Flush has been
\* handled after a Store, Retrieve of the ChunkRef that Store returned yields
\* exactly the bytes submitted, then and after all later Stores and Flushes.
C1_IdentityAfterFlush ==
    \A i \in 1..flushedUpTo :
        RetrieveOutcome(backend, stores[i].ref) = RetrieveOk(stores[i].chunk)

\* C1 witness: the first chunk is retrieved intact after a later Store went to
\* another blob and was flushed too.
C1_Witness ==
    /\ pc = "idle"
    /\ flushedUpTo = 2
    /\ stores[1].ref.blob_id # stores[2].ref.blob_id
    /\ stores[1].ref.blob_id # SentinelName
    /\ stores[2].chunk # stores[1].chunk
    /\ reply = RetrieveOk(stores[1].chunk)

\* C2: at the moment the callback of a non-empty chunk is invoked, the backend
\* holds the blob its ChunkRef names and the index records that blob as
\* Committed.
C2_DurableBeforeCallback ==
    pc = "callbacks" =>
        \A j \in 1..Len(blob_refs) :
            /\ Has(backend, blob_refs[j].ref.blob_id)
            /\ StateOf(blob_index, blob_refs[j].ref.blob_id) = "Committed"

\* Every blob whose index row is Committed is on the backend under its name.
CommittedOnBackend ==
    \A r \in blob_index : r.state = "Committed" => Has(backend, r.name)

\* A DeleteByTag that a backend delete error aborted.
AbortedDelete == \E t \in Tags : DeleteByTag(t) /\ reply'.type = "Err"

\* C3 as stated: at every request boundary every Committed blob is on the
\* backend, also after a DeleteByTag that was aborted by a backend error.
C3_Original == pc = "idle" => CommittedOnBackend

\* C3 amended: every Committed blob is on the backend initially, and every step
\* but a DeleteByTag aborted by a backend delete error keeps it so; it holds at
\* every request boundary until a DeleteByTag is aborted.
C3_CommittedOnBackendUntilAbort ==
    /\ CommittedOnBackend
    /\ [][CommittedOnBackend => (CommittedOnBackend' \/ AbortedDelete)]_vars

\* C3 witness: a request boundary after a DeleteByTag that replied Ok and took
\* the first blob away, with the second blob Committed, tagged and on the backend.
C3_Witness ==
    /\ pc = "idle"
    /\ reply.type = "Ok"
    /\ Len(stores) = 2
    /\ ~Has(backend, stores[1].ref.blob_id)
    /\ RowsNamed(blob_index, stores[1].ref.blob_id) = {}
    /\ \E r \in blob_index :
          /\ r.name = stores[2].ref.blob_id
          /\ r.state = "Committed"
          /\ r.tag # NoTag
          /\ Has(backend, r.name)

StoreOk(ref) == [type |-> "StoreOk", ref |-> ref]

\* The positions inside flush().
FlushPcs == {"flush", "in_air", "backend_store", "commit", "callbacks", "flush_done"}

\* The Store in hand has queued its (ref, callback) pair and appended its chunk.
Staged ==
    /\ id = stores[Len(stores)].ref
    /\ blob_refs # <<>>
    /\ blob_refs[Len(blob_refs)] = [ref |-> id, cb |-> Len(stores)]
    /\ Len(blob_data) = id.offset + id.length
    /\ Slice(blob_data, id.offset, id.length) = stores[Len(stores)].chunk

\* No flush has begun for the Store in hand.
FlushNotBegun ==
    /\ blob_desc.name = id.blob_id
    /\ StateOf(blob_index, id.blob_id) \in {"Reserved", "Absent"}
    /\ old_blob_desc = NoDesc
    /\ old_blob = <<>>
    /\ touched = FALSE
    /\ cbLog[Len(stores)] = <<>>

\* C4: a Store of a non-empty chunk replies StoreOk(ref) after the chunk is
\* appended and its pair queued, and before the flush it may trigger begins:
\* before the next blob is reserved, the in-air transition, the backend write
\* and the chunk's callback.
C4_ReplyBeforeFlush ==
    /\ pc = "store_reply" => reply = NoReply /\ Staged /\ FlushNotBegun
    /\ pc = "maybe_flush" => reply = StoreOk(id) /\ Staged /\ FlushNotBegun
    /\ (pc \in FlushPcs /\ ret = "store") =>
          reply = StoreOk(stores[Len(stores)].ref)

\* C4 witness: the flush a Store triggered is about to write to the backend,
\* and StoreOk has been sent.
C4_Witness ==
    /\ pc = "backend_store"
    /\ ret = "store"
    /\ reply = StoreOk(stores[Len(stores)].ref)
    /\ blob_refs # <<>>

\* The callback of Store k has been called once, with the ChunkRef returned.
CalledOnce(k) == cbLog[k] = <<Call(stores[k].ref)>>

\* The callback of Store k was dropped by reset before any call.
DroppedUncalled(k) == cbLog[k] = <<DropEvent>>

NonEmptyStores == {k \in 1..Len(stores) : stores[k].chunk # <<>>}

\* C5 as stated: when FlushOk is emitted the queue is empty and the callback of
\* every non-empty chunk stored before has been invoked.
C5_Original ==
    reply.type = "FlushOk" =>
        /\ blob_refs = <<>>
        /\ \A k \in NonEmptyStores : CalledOnce(k)

\* C5 amended: when FlushOk is emitted the queue is empty and the callback of
\* every non-empty chunk stored before has been invoked, unless a reset
\* dropped it from the queue.
C5_QueueDrainedAtFlushOk ==
    reply.type = "FlushOk" =>
        /\ blob_refs = <<>>
        /\ \A k \in NonEmptyStores : CalledOnce(k) \/ DroppedUncalled(k)

\* C5 witness: FlushOk after two Stores, the first committed by the flush its
\* Store triggered, the second by this Flush.
C5_Witness ==
    /\ reply.type = "FlushOk"
    /\ NonEmptyStores = {1, 2}
    /\ stores[1].ref.blob_id # stores[2].ref.blob_id
    /\ CalledOnce(1)
    /\ CalledOnce(2)
    /\ Has(backend, stores[2].ref.blob_id)

\* C6 as stated: after a Flush, every callback handed to a Store has been
\* invoked exactly once with the ChunkRef its Store returned.
C6_Original ==
    (pc = "idle" /\ reply.type = "FlushOk") =>
        \A k \in 1..Len(stores) : CalledOnce(k)

\* C6 amended: no callback is invoked twice or with another ChunkRef than the
\* one returned; after a Flush the callback of every non-empty chunk has been
\* invoked exactly once unless a reset dropped it from the queue (then it is
\* never invoked); the callback of an empty chunk is invoked once by its own
\* thread, which may run after the Flush.
C6_CalledOnce ==
    \A k \in 1..Len(stores) :
        /\ cbLog[k] = <<>> \/ CalledOnce(k) \/ DroppedUncalled(k)
        /\ k \in NonEmptyStores =>
              /\ (cbLog[k] = <<>>) = (\E j \in 1..Len(blob_refs) : blob_refs[j].cb = k)
              /\ reply.type = "FlushOk" => cbLog[k] # <<>>
        /\ k \notin NonEmptyStores =>
              /\ ~DroppedUncalled(k)
              /\ (cbLog[k] = <<>>) = (\E t \in spawned : t.cb = k)

\* C6 witness: after a Flush one callback was called once by flush, one was
\* dropped by a reset.
C6_Witness ==
    /\ pc = "idle"
    /\ reply.type = "FlushOk"
    /\ Len(stores) = 2
    /\ DroppedUncalled(1)
    /\ CalledOnce(2)

\* C7: a Store of an empty chunk replies StoreOk with the sentinel ChunkRef of
\* the given kind whatever the state, changes nothing in the store (staging
\* buffer, queue, current blob, index, backend) and triggers no flush.
C7_EmptyStoreFrame ==
    [][\A k \in Kinds :
          StoreEmpty(k) =>
              /\ reply' = StoreOk([blob_id |-> <<0>>, offset |-> 0, length |-> 0,
                                   kind |-> k])
              /\ UNCHANGED <<blob_data, blob_refs, blob_desc, blob_index, next_id,
                             backend, max_blob_size>>
              /\ pc' = "idle"
              /\ touched' = FALSE]_vars

\* C7 witness: an empty chunk was stored while another chunk was staged in the
\* current blob; the reply is the sentinel and the staged chunk is still there.
C7_Witness ==
    /\ pc = "idle"
    /\ Len(stores) = 2
    /\ stores[2].chunk = <<>>
    /\ reply = StoreOk(Sentinel("TreeBranch"))
    /\ blob_data = stores[1].chunk
    /\ blob_data # <<>>
    /\ Len(blob_refs) = 1

\* C8: Retrieve of the empty sentinel replies RetrieveOk([]) and makes no
\* backend call, in every state.
C8_SentinelRetrieve ==
    [][\A k \in Kinds :
          Retrieve(Sentinel(k)) =>
              /\ reply' = RetrieveOk(<<>>)
              /\ touched' = FALSE
              /\ pc' = "idle"
              /\ backend' = backend]_vars

\* C8 witness: the sentinel was retrieved while the backend was empty and a
\* chunk was staged, so that a backend retrieve would have failed.
C8_Witness ==
    /\ pc = "idle"
    /\ reply = RetrieveOk(<<>>)
    /\ touched = FALSE
    /\ backend = <<>>
    /\ blob_data # <<>>

\* The backend holds no blob this store has issued a name for, and Retrieve
\* of every ChunkRef returned for a non-empty chunk fails.
TagClosure ==
    /\ \A i \in 1..(next_id - 1) : ~Has(backend, NameOf(i))
    /\ \A k \in NonEmptyStores : RetrieveOutcome(backend, stores[k].ref) = NoReply

\* C9 as stated: after Stores and Flushes, then TagAll(t), then DeleteByTag(t)
\* replying Ok, the tag closure holds, and in every later state until a new
\* chunk is stored.
C9_Original == phase \in {"closed", "rewritten"} => TagClosure

\* C10: DeleteByTag deletes the listed blobs from the backend in order and
\* removes the index rows only after the last one; when a backend delete
\* fails the batch stops there, the reply is the error and the index is
\* unchanged.
C10_DeleteByTagAbort ==
    [][\A t \in Tags :
          DeleteByTag(t) =>
              LET blobs == list_by_tag(blob_index, t)
              IN  /\ reply'.type \in {"Ok", "Err"}
                  /\ reply'.type = "Err" =>
                        /\ blob_index' = blob_index
                        /\ \E k \in 0..(Len(blobs) - 1) :
                              /\ \A j \in 1..k : ~Has(backend', blobs[j].name)
                              /\ \A n \in DOMAIN backend :
                                    Has(backend', n) \/ \E j \in 1..k : blobs[j].name = n
                  /\ reply'.type = "Ok" =>
                        /\ blob_index' = {r \in blob_index : r.tag # t}
                        /\ \A j \in 1..Len(blobs) : ~Has(backend', blobs[j].name)]_vars

\* C10 witness: DeleteByTag replied with the error after it had deleted a
\* Committed blob from the backend; the row of that blob is still there.
C10_Witness ==
    /\ pc = "idle"
    /\ reply.type = "Err"
    /\ \E r \in blob_index :
          r.state = "Committed" /\ r.tag # NoTag /\ ~Has(backend, r.name)

\* The store thread panicked in flush(), at backend.store(..).expect(..).
FlushFailed == pc = "dead" /\ ret # "none"

\* C11: when the backend store call fails during a flush, the retired blob is
\* In-air in the index, none of the callbacks queued for it has been invoked,
\* and a flush triggered by a Store fails after that Store's StoreOk was sent.
C11_FailedFlush ==
    FlushFailed =>
        /\ StateOf(blob_index, old_blob_desc.name) = "InAir"
        /\ blob_refs # <<>>
        /\ \A j \in 1..Len(blob_refs) :
              /\ blob_refs[j].ref.blob_id = old_blob_desc.name
              /\ cbLog[blob_refs[j].cb] = <<>>
        /\ ret = "store" => reply = StoreOk(stores[Len(stores)].ref)
        /\ ret = "flush" => reply = NoReply

\* C12 as stated: of three consecutive Stores of 500-byte chunks under
\* max_blob_size = 1024, the first two ChunkRefs share one blob_id and the
\* third carries another.
C12_Original ==
    Len(stores) = ScenarioStores =>
        /\ stores[1].ref.blob_id = stores[2].ref.blob_id
        /\ stores[3].ref.blob_id # stores[1].ref.blob_id

\* C12 amended: all three ChunkRefs name the first blob, at offsets 0, 500 and
\* 1000; the third Store brings the buffer to 1500 >= 1024 and triggers the
\* flush after its insertion, so the first blob is written with 1500 bytes
\* and the second blob is current and empty; after the Flush every Retrieve
\* returns the bytes stored.
C12_ThreeChunksOneBlob ==
    /\ \A k \in 1..Len(stores) :
          /\ stores[k].ref.blob_id = NameOf(1)
          /\ stores[k].ref.offset = (k - 1) * ScenarioChunkLen
          /\ stores[k].ref.length = ScenarioChunkLen
    /\ (pc = "idle" /\ Len(stores) < ScenarioStores) =>
          /\ Len(blob_data) = Len(stores) * ScenarioChunkLen
          /\ blob_desc.name = NameOf(1)
          /\ backend = <<>>
    /\ (pc = "idle" /\ Len(stores) = ScenarioStores) =>
          /\ blob_data = <<>>
          /\ blob_desc.name = NameOf(2)
          /\ DOMAIN backend = {NameOf(1)}
          /\ Len(backend[NameOf(1)]) = ScenarioStores * ScenarioChunkLen
          /\ \A k \in 1..ScenarioStores :
                RetrieveOutcome(backend, stores[k].ref) = RetrieveOk(stores[k].chunk)

\* C12 witness: after the three Stores and the Flush, the third chunk has been
\* retrieved from the blob it shares with the first two.
C12_Witness ==
    /\ pc = "idle"
    /\ flushedUpTo = ScenarioStores
    /\ stores[3].chunk # stores[1].chunk
    /\ stores[3].ref.blob_id = stores[1].ref.blob_id
    /\ stores[3].ref.offset = 1000
    /\ reply = RetrieveOk(stores[3].chunk)

\* The threads that hold a live guard.
LiveGuards == {t \in Threads : tpc[t] \in {"holding", "drop", "dropping"}}

\* The number of places a value is at: positions in the pool, and guards.
Places(v) ==
    Cardinality({i \in 1..Len(vals) : vals[i] = v})
        + Cardinality({t \in Threads : guard[t] = v})

\* C13: under every interleaving of lock() calls and guard drops, every value
\* of the initial vector is either in the pool or held by exactly one live
\* guard, never both and never by two guards; there are never more live
\* guards than values; a thread has a guard only with a value it popped.
C13_PoolConservation ==
    /\ [](/\ \A v \in Values : Places(v) = 1
          /\ \A t \in Threads : (guard[t] # 0) = (t \in LiveGuards)
          /\ \A t \in Threads : guard[t] \in Values \cup {0}
          /\ Cardinality(LiveGuards) <= NumValues
          /\ Len(vals) + Cardinality(LiveGuards) = NumValues)
    /\ [][\A t \in Threads :
            (tpc[t] # "holding" /\ tpc'[t] = "holding") =>
                /\ vals # <<>>
                /\ guard'[t] = vals[Len(vals)]
                /\ vals' = SubSeq(vals, 1, Len(vals) - 1)]_vars

\* C13 witness: every value is held by a guard, the pool is empty, and
\* another thread waits in lock().
C13_Witness ==
    /\ vals = <<>>
    /\ Cardinality(LiveGuards) = NumValues
    /\ \E t \in Threads : tpc[t] = "waiting"
    /\ \E t, u \in LiveGuards : guard[t] # guard[u]

\* The thread is inside lock().
Blocked(t) == tpc[t] \in {"lock", "locked", "waiting", "woken"}

AnyBlocked == \E t \in Threads : Blocked(t)

\* A lock() call returns a guard.
LockReturn == \E t \in Threads : LockCheck(t) /\ tpc'[t] = "holding"

C15_FlushOrder ==
    /\ pc \in {"in_air", "backend_store", "commit", "callbacks"} =>
          /\ blob_desc.name # old_blob_desc.name
          /\ StateOf(blob_index, blob_desc.name) = "Reserved"
          /\ blob_data = <<>>
          /\ old_blob # <<>>
    /\ pc = "in_air" => StateOf(blob_index, old_blob_desc.name) = "Reserved"
    /\ pc = "backend_store" => StateOf(blob_index, old_blob_desc.name) = "InAir"
    /\ pc = "commit" =>
          /\ StateOf(blob_index, old_blob_desc.name) = "InAir"
          /\ Has(backend, old_blob_desc.name)
          /\ backend[old_blob_desc.name] = old_blob
    /\ pc = "callbacks" =>
          /\ StateOf(blob_index, old_blob_desc.name) = "Committed"
          /\ Has(backend, old_blob_desc.name)

\* C16: whenever the store is between requests, the current blob descriptor
\* names a row of the index whose state is Reserved; in particular after
\* TagAll(t) followed by DeleteByTag(t).
C16_CurrentReserved ==
    pc = "idle" => StateOf(blob_index, blob_desc.name) = "Reserved"

\* C17: maybe_flush goes on to flush exactly when the staging buffer holds
\* at least max_blob_size bytes; between requests the buffer holds fewer than
\* max_blob_size bytes; the buffer never holds more than max_blob_size plus
\* the largest chunk.
C17_StagingBound ==
    /\ [](pc = "idle" => Len(blob_data) < max_blob_size)
    /\ [](Len(blob_data) <= max_blob_size + MaxChunkLen)
    /\ [][pc = "maybe_flush" /\ pc' # pc =>
             /\ pc' \in {"flush", "idle"}
             /\ pc' = "flush" <=> Len(blob_data) >= max_blob_size]_vars

\* The last Store inserted a chunk of at least max_blob_size bytes into a
\* buffer that was not empty, and its own flush has emptied the buffer and
\* called its callback.
C17_Witness ==
    /\ pc = "idle"
    /\ Len(stores) = MaxStores
    /\ Len(stores[Len(stores)].chunk) >= max_blob_size
    /\ stores[Len(stores)].ref.offset > 0
    /\ flushedUpTo < Len(stores)
    /\ cbLog[Len(stores)] = <<Call(stores[Len(stores)].ref)>>
    /\ blob_data = <<>>

\* The ChunkRefs of queue q, in enqueue order, name blob `name` and tile the
\* bytes `data`: the first starts at 0, each next one starts where the
\* previous one ends, the last one ends at Len(data).
Tiles(q, name, data) ==
    /\ \A i \in 1..Len(q) :
          /\ q[i].ref.blob_id = name
          /\ q[i].ref.offset = (IF i = 1 THEN 0
                                ELSE q[i - 1].ref.offset + q[i - 1].ref.length)
    /\ Len(data) = (IF q = <<>> THEN 0
                    ELSE q[Len(q)].ref.offset + q[Len(q)].ref.length)

\* Every ChunkRef of q lies within `data` and no two of them overlap.
FitsApart(q, data) ==
    /\ \A i \in 1..Len(q) : q[i].ref.offset + q[i].ref.length <= Len(data)
    /\ \A i, j \in 1..Len(q) :
          i # j => \/ q[i].ref.offset + q[i].ref.length <= q[j].ref.offset
                   \/ q[j].ref.offset + q[j].ref.length <= q[i].ref.offset

\* C18: between requests the queued ChunkRefs name the current blob and tile
\* the staging buffer, so the queue is empty iff the buffer is; when flush
\* has written a blob, the ChunkRefs issued for it (the queue, not yet
\* popped) name it, lie within the bytes written and do not overlap.
C18_ChunkAddressing ==
    /\ pc = "idle" =>
          /\ Tiles(blob_refs, blob_desc.name, blob_data)
          /\ blob_refs = <<>> <=> blob_data = <<>>
    /\ pc = "commit" =>
          /\ Has(backend, old_blob_desc.name)
          /\ backend[old_blob_desc.name] = old_blob
          /\ blob_refs # <<>>
          /\ Tiles(blob_refs, old_blob_desc.name, old_blob)
          /\ FitsApart(blob_refs, backend[old_blob_desc.name])

\* A blob holding two chunks has just been written.
C18_Witness ==
    /\ pc = "commit"
    /\ Len(blob_refs) = 2
    /\ blob_refs[2].ref.offset > 0
    /\ Has(backend, old_blob_desc.name)

\* The step of flush that writes the retired blob to the backend.
BlobWritten == pc = "backend_store" /\ pc' = "commit"

====
